---------------------------- MODULE Spec2Model ----------------------------
(***************************************************************************)
(* Model of the mongoose-tree-ancestors plugin                             *)
(* (src/src/mongoose-tree-ancestors.js).                                   *)
(*                                                                         *)
(* The collection is the state: which ids are stored, each stored          *)
(* document's parent reference and its ancestors array.  Every hook and    *)
(* static of the plugin is one action that runs the whole handler,         *)
(* including the store write mongoose performs once a pre-hook calls       *)
(* next() without an error.                                                *)
(*                                                                         *)
(* The calls the plugin itself makes on the model (find, findOne,          *)
(* self.update, doc.save) are taken as calls on the collection: the        *)
(* middleware mongoose runs around them is not entered again.  doc.save()  *)
(* inside _updatedDocument is not awaited by the code: whether its write   *)
(* has landed when the cascade's find is answered is nondeterministic      *)
(* (landed), and every outcome is followed.                                *)
(*                                                                         *)
(* Spec runs operations from the empty collection, one at a time.          *)
(* SpecTree runs one operation on any collection a sequence of creates     *)
(* leaves, SpecConfig does so with any configured ancestors field name,    *)
(* SpecRebuild runs buildAncestors on a forest whose ancestors arrays are  *)
(* arbitrary.                                                              *)
(*                                                                         *)
(* SpecSteps, SpecFaults and SpecRebuildSteps run the handlers as the      *)
(* event loop does: one step per answer of the store, the callback         *)
(* running up to the store calls it issues.  SpecSteps has two saves or    *)
(* removes in flight, SpecFaults one call of which some store calls fail,  *)
(* SpecRebuildSteps one buildAncestors with its mapLimit tasks.            *)
(***************************************************************************)
EXTENDS Integers, Sequences, FiniteSets, TLC

\* ------------------------------------------------------------------ bounds
NumIds == 4        \* how many document ids exist
MaxOps == 4        \* how many operations a run performs
MaxStale == 1      \* longest stale ancestors array in a pre-existing collection
MaxFaults == 2     \* how many store calls of one handler fail

\* options.mapLimit
MapLimit == 5

Null == 0
IDs == 1..NumIds
Refs == IDs \cup {Null}

VARIABLES
    store,   \* the collection: [stored, parent, ancestors]
    used,    \* ids assigned to a document so far (ids are assigned in order, once)
    pre,     \* the collection as it was when the last operation started
    last,    \* the last operation: its entry point, inputs and outcome
    ops,     \* how many operations have run
    rejected,\* some operation so far ended with an error
    options, \* the options the plugin was installed with
    procs,   \* the handlers in flight, each at one of its store calls
    calls    \* the updateChildren calls of a rebuild in flight

vars == <<store, used, pre, last, ops, rejected, options, procs, calls>>

\* the handlers that can be in flight together
Procs == 1..2

\* _.assign({ancestorsFieldName: 'ancestors', mapLimit: 5, ...}, options)
DefaultOptions == [ancestorsFieldName |-> "ancestors", mapLimit |-> MapLimit]

\* ------------------------------------------------------------ collections
EmptyStore ==
    [stored    |-> {},
     parent    |-> [d \in IDs |-> Null],
     ancestors |-> [d \in IDs |-> <<>>]]

Contains(s, x) == \E i \in 1..Len(s) : s[i] = x

\* insert or overwrite document d
Put(st, d, p, anc) ==
    [stored    |-> st.stored \cup {d},
     parent    |-> [st.parent EXCEPT ![d] = p],
     ancestors |-> [st.ancestors EXCEPT ![d] = anc]]

\* a save of a fetched document whose only modified path is ancestors
PutAncestors(st, d, anc) ==
    IF d \in st.stored
    THEN [st EXCEPT !.ancestors = [st.ancestors EXCEPT ![d] = anc]]
    ELSE st

Delete(st, d) ==
    [stored    |-> st.stored \ {d},
     parent    |-> [st.parent EXCEPT ![d] = Null],
     ancestors |-> [st.ancestors EXCEPT ![d] = <<>>]]

\* find({ancestors: n}): the documents whose ancestors array contains n
FindByAncestor(st, n) == {d \in st.stored : Contains(st.ancestors[d], n)}

\* find({parent: p})
FindByParent(st, p) == {d \in st.stored : st.parent[d] = p}

\* the filters a caller passes: {_id: v} or {parent: v}
Conditions == [kind : {"id"}, val : IDs] \cup [kind : {"parent"}, val : Refs]

Match(st, cond) ==
    IF cond.kind = "id"
    THEN {d \in st.stored : d = cond.val}
    ELSE FindByParent(st, cond.val)

\* the orders in which a find can return the set S
Orders(S) ==
    {s \in [1..Cardinality(S) -> S] : \A i, j \in 1..Cardinality(S) : i # j => s[i] # s[j]}

\* the documents async.mapLimit starts when n more may run: the first of
\* the array, in whichever order the find returned them
Started(waiting, n) ==
    {S \in SUBSET waiting :
        Cardinality(S) = IF Cardinality(waiting) < n THEN Cardinality(waiting) ELSE n}

\* ----------------------------------------------------- the chain calculus
\* (parentAncestors && parentAncestors.push(parent._id) && parentAncestors) || []
\* parentAncestors is a schema array, hence always defined.
ComputeChain(parentAncestors, parentId) == Append(parentAncestors, parentId)

\* a dropWhile that also drops the element it stops at
RECURSIVE DropThrough(_, _)
DropThrough(chain, n) ==
    IF chain = <<>> THEN <<>>
    ELSE IF Head(chain) = n THEN Tail(chain)
    ELSE DropThrough(Tail(chain), n)

\* _.dropWhile(chain, e => e !== n)
RECURSIVE DropWhileNot(_, _)
DropWhileNot(chain, n) ==
    IF chain = <<>> THEN <<>>
    ELSE IF Head(chain) = n THEN chain
    ELSE DropWhileNot(Tail(chain), n)


\* ------------------------------------------------------- _updatedDocument
\* updateChilds: the documents found by find({ancestors: doc.id}) in the
\* collection as the find saw it (snap) get doc.ancestors followed by the
\* part of their own chain that starts at doc.id, and are saved.
UpdateChilds(st, snap, docId, docAncestors) ==
    [st EXCEPT !.ancestors =
        [d \in IDs |->
            IF d \in FindByAncestor(snap, docId) /\ d \in st.stored
            THEN docAncestors \o DropWhileNot(snap.ancestors[d], docId)
            ELSE st.ancestors[d]]]

\* doc.save() as issued inside _updatedDocument.  From pre('save') the
\* document carries a modified parent (or is new): parent and ancestors are
\* written.  From a post hook the document was fetched and only its
\* ancestors path is modified.
SaveDoc(st, path, docId, docParent, docAncestors) ==
    IF path = "save"
    THEN Put(st, docId, docParent, docAncestors)
    ELSE PutAncestors(st, docId, docAncestors)

\* an _updatedDocument that saves the document before it looks the parent up
UpdatedDocumentSavesFirst(st, path, docId, docParent, landed) ==
    LET saved == SaveDoc(st, path, docId, docParent, <<>>)
    IN  IF docParent # Null /\ docParent \notin st.stored
        THEN [store |-> saved, result |-> "ParentNotFound", invalid |-> TRUE,
              ancestors |-> <<>>]
        ELSE LET docAncestors ==
                     IF docParent = Null THEN <<>>
                     ELSE ComputeChain(st.ancestors[docParent], docParent)
                 snap == IF landed THEN saved ELSE st
             IN  [store     |-> UpdateChilds(
                                    SaveDoc(saved, path, docId, docParent, docAncestors),
                                    snap, docId, docAncestors),
                  result    |-> "ok",
                  invalid   |-> FALSE,
                  ancestors |-> docAncestors]

\* _updatedDocument(doc, next) with doc = (docId, docParent).
\* result: what next() receives; invalid: doc.invalidate(parentId) was called;
\* ancestors: doc[ancestors] as the handler leaves it in memory.
UpdatedDocument(st, path, docId, docParent, landed) ==
    IF docParent # Null /\ docParent \notin st.stored
    THEN [store |-> st, result |-> "ParentNotFound", invalid |-> TRUE,
          ancestors |-> <<>>]
    ELSE LET docAncestors ==
                 IF docParent = Null THEN <<>>
                 ELSE ComputeChain(st.ancestors[docParent], docParent)
             saved == SaveDoc(st, path, docId, docParent, docAncestors)
             snap == IF landed THEN saved ELSE st
         IN  [store     |-> UpdateChilds(saved, snap, docId, docAncestors),
              result    |-> "ok",
              invalid   |-> FALSE,
              ancestors |-> docAncestors]

\* what _updatedDocument can leave behind: one outcome per answer the
\* cascade's find can get while the unawaited doc.save() is under way
UpdatedDocumentOutcomes(st, path, docId, docParent) ==
    {UpdatedDocument(st, path, docId, docParent, landed) : landed \in BOOLEAN}

\* ---------------------------------------------------------- _deleteDocument
\* a guard that looks for direct children only
DeleteDocumentChildrenOnly(st, docId) ==
    LET data == FindByParent(st, docId)
    IN  IF data = {}
        THEN [result |-> "ok", childrens |-> {}]
        ELSE [result |-> "HasDescendants", childrens |-> data]

\* find({<field>: n}): the chains are stored in the field the plugin was
\* configured with; no document has a field of another name
FindByField(st, field, n) ==
    IF field = options.ancestorsFieldName THEN FindByAncestor(st, n) ELSE {}

\* find({ancestors: doc._id}), with the field name written out: next()
\* without descendants, next(err) with err.childrens = their ids otherwise
DeleteDocument(st, docId) ==
    LET data == FindByField(st, "ancestors", docId)
    IN  IF data = {}
        THEN [result |-> "ok", childrens |-> {}]
        ELSE [result |-> "HasDescendants", childrens |-> data]

\* ------------------------------------------------------ operation records
NoCond == [kind |-> "none", val |-> Null]

Op(op, node, cond, setParent, newParent, result) ==
    [op        |-> op,         \* entry point
     node      |-> node,       \* the document a document-level call is made on
     cond      |-> cond,       \* the filter of a query-level call
     setParent |-> setParent,  \* the call assigns the parent field
     newParent |-> newParent,  \* ... to this value
     result    |-> result,     \* what the caller receives
     invalid   |-> FALSE,      \* the parent path was invalidated
     childrens |-> {},         \* err.childrens
     data      |-> {},         \* the documents a hook or static fetched
     affected  |-> {},         \* the documents a bulk update wrote
     returnNew |-> TRUE,       \* the hook got the document as stored after the call
     storeError |-> FALSE]     \* a store call of the operation failed

Idle == Op("none", Null, NoCond, FALSE, Null, "ok")

\* no handler is in flight
NoProc ==
    [op           |-> "none",  \* "save", "remove", "removeStatic"
     pc           |-> "idle",  \* the store call the handler waits for
     isNew        |-> FALSE,   \* doc.isNew
     doc          |-> Null,    \* the document the call is made on
     parent       |-> Null,    \* doc[parentId]
     cond         |-> NoCond,  \* the conditions of a Model.remove
     ancestors    |-> <<>>,    \* doc[ancestors] in memory
     lookedUp     |-> FALSE,   \* findOne(byId(parent)) returned the parent
     savePending  |-> FALSE,   \* the doc.save() of _updatedDocument is in flight
     saveConfirmed |-> FALSE,  \* ... and was answered without an error
     pending      |-> <<>>,    \* childrenDoc.save() in flight: id -> chain sent
     wrote        |-> <<>>,    \* childrenDoc.save() answered: id -> chain stored
     failed       |-> {},      \* childrenDoc.save() answered with an error
     waiting      |-> {},      \* documents mapLimit has not started yet
     running      |-> {},      \* documents whose _deleteDocument is in flight
     result       |-> "none",  \* what the caller of the operation receives
     reported     |-> 0,       \* how often the handler called next / callback
     storeError   |-> FALSE,   \* a store call failed before the handler reported
     faults       |-> 0]       \* store calls of the handler that may still fail

NoProcs == [i \in Procs |-> NoProc]

\* no buildAncestors is in flight.  task is where each document handed to
\* updateChildren stands, caller the task whose call it belongs to (Null for
\* the call on the roots), mem the ancestors it was fetched with.
NoCalls ==
    [pc     |-> "none",
     task   |-> [d \in IDs |-> "none"],
     caller |-> [d \in IDs |-> Null],
     mem    |-> [d \in IDs |-> <<>>]]

\* the operations of Spec run one at a time, each to completion
Sequential ==
    /\ procs = NoProcs
    /\ calls = NoCalls

Init ==
    /\ store = EmptyStore
    /\ used = {}
    /\ pre = EmptyStore
    /\ last = Idle
    /\ ops = 0
    /\ rejected = FALSE
    /\ options = DefaultOptions
    /\ Sequential

\* an operation starts: operations run one after the other, each to completion,
\* and the caller has taken the result of the one before
Begin ==
    /\ last = Idle
    /\ ops < MaxOps
    /\ ops' = ops + 1
    /\ pre' = store
    /\ rejected' = rejected
    /\ UNCHANGED <<options, procs, calls>>

\* the caller takes the result of the operation that completed
Return ==
    /\ last # Idle
    /\ last' = Idle
    /\ pre' = store
    /\ rejected' = (rejected \/ last.result # "ok" \/ last.storeError)
    /\ UNCHANGED <<store, used, ops, options, procs, calls>>

\* the id a new document gets
Fresh(id) == id \in IDs /\ id = Cardinality(used) + 1

\* --------------------------------------------------------------- pre('save')
\* new document without a parent: ancestors = [], parent = null, next()
CreateRoot(id) ==
    /\ Fresh(id)
    /\ Begin
    /\ store' = Put(store, id, Null, <<>>)
    /\ used' = used \cup {id}
    /\ last' = Op("create", id, NoCond, FALSE, Null, "ok")

\* new document with a parent: _updatedDocument(self, next), then the insert
CreateChild(id, p) ==
    /\ Begin
    /\ Fresh(id)
    /\ p # Null
    /\ \E r \in UpdatedDocumentOutcomes(store, "save", id, p) :
           /\ IF r.result = "ok"
              THEN /\ store' = Put(r.store, id, p, r.ancestors)
                   /\ used' = used \cup {id}
              ELSE /\ store' = r.store
                   /\ used' = used
           /\ last' = [Op("create", id, NoCond, TRUE, p, r.result)
                          EXCEPT !.invalid = r.invalid]

\* existing document, parent not modified: next() at once
SaveData(id) ==
    /\ id \in store.stored
    /\ Begin
    /\ store' = store
    /\ used' = used
    /\ last' = Op("save", id, NoCond, FALSE, store.parent[id], "ok")

\* existing document, parent modified: _updatedDocument(self, next), then
\* the write of the document
SaveReparent(id, p) ==
    /\ Begin
    /\ id \in store.stored
    /\ p # store.parent[id]
    /\ \E r \in UpdatedDocumentOutcomes(store, "save", id, p) :
           /\ IF r.result = "ok"
              THEN store' = Put(r.store, id, p, r.ancestors)
              ELSE store' = r.store
           /\ used' = used
           /\ last' = [Op("save", id, NoCond, TRUE, p, r.result)
                          EXCEPT !.invalid = r.invalid]

\* ------------------------------------------------------------ post('update')
\* async.eachSeries(data, _updatedDocument): one document after the other,
\* stopping at the first error.  Each document was fetched after the update,
\* so it carries the parent the collection holds.  The set of outcomes.
RECURSIVE EachSeries(_, _)
EachSeries(st, data) ==
    IF data = <<>>
    THEN {[store |-> st, result |-> "ok", invalid |-> FALSE]}
    ELSE UNION {
            IF r.result # "ok"
            THEN {[store |-> r.store, result |-> r.result, invalid |-> r.invalid]}
            ELSE EachSeries(r.store, Tail(data)) :
                r \in UpdatedDocumentOutcomes(st, "hook", Head(data),
                                              st.parent[Head(data)])}

\* the store's update(cond, {parent: p}, {multi}): every match, or the first
SetParent(st, targets, p) ==
    [st EXCEPT !.parent = [d \in IDs |-> IF d \in targets THEN p ELSE st.parent[d]]]

\* Model.update(cond, doc, {multi}) followed by the post('update') hook,
\* whose this.find({}) runs the same filter again on the updated collection.
Update(cond, setParent, p, multi) ==
    /\ Begin
    /\ setParent \/ p = Null
    /\ \E first \in Match(store, cond) \cup {Null} :
        /\ first = Null <=> (multi \/ Match(store, cond) = {})
        /\ LET targets == IF multi THEN Match(store, cond) ELSE {first} \ {Null}
               updated == IF setParent THEN SetParent(store, targets, p) ELSE store
               found   == Match(updated, cond)
           IN  \E r \in UNION {EachSeries(updated, data) : data \in Orders(found)} :
                 /\ store' = r.store
                 /\ used' = used
                 /\ last' = [Op("update", Null, cond, setParent, p, r.result)
                                EXCEPT !.invalid = r.invalid, !.data = found,
                                       !.affected = targets]

\* -------------------------------------------------- post('findOneAndUpdate')
\* Model.findOneAndUpdate(cond, doc, {new}) followed by the hook, which gets
\* the document the call returns: the updated one with new: true, the one
\* found before the update otherwise.  No match: the hook gets null and
\* doc[parentId] throws.
FindOneAndUpdate(cond, setParent, p, returnNew) ==
    /\ setParent \/ p = Null
    /\ Begin
    /\ used' = used
    /\ IF Match(store, cond) = {}
       THEN /\ store' = store
            /\ last' = Op("findOneAndUpdate", Null, cond, setParent, p, "TypeError")
       ELSE \E doc \in Match(store, cond) :
              LET updated == IF setParent THEN SetParent(store, {doc}, p) ELSE store
                  docParent == IF returnNew THEN updated.parent[doc]
                               ELSE store.parent[doc]
              IN  \E r \in UpdatedDocumentOutcomes(updated, "hook", doc, docParent) :
                    /\ store' = r.store
                    /\ last' = [Op("findOneAndUpdate", doc, cond, setParent, p, r.result)
                                   EXCEPT !.invalid = r.invalid, !.data = {doc},
                                          !.returnNew = returnNew]

\* ------------------------------------------------------------- pre('remove')
\* document.remove(): findOne by _id, _deleteDocument, then the removal
Remove(id) ==
    /\ Begin
    /\ id \in store.stored
    /\ LET r == DeleteDocument(store, id)
       IN  /\ store' = IF r.result = "ok" THEN Delete(store, id) ELSE store
           /\ used' = used
           /\ last' = [Op("remove", id, NoCond, FALSE, Null, r.result)
                          EXCEPT !.childrens = r.childrens]

\* --------------------------------------------------- pre('findOneAndRemove')
\* findOne with the query's filter, _deleteDocument, then the removal of the
\* first match; without a match _deleteDocument calls next() at once.
FindOneAndRemove(cond) ==
    /\ Begin
    /\ used' = used
    /\ IF Match(store, cond) = {}
       THEN /\ store' = store
            /\ last' = Op("findOneAndRemove", Null, cond, FALSE, Null, "ok")
       ELSE \E doc \in Match(store, cond) :
              LET r == DeleteDocument(store, doc)
              IN  /\ store' = IF r.result = "ok" THEN Delete(store, doc) ELSE store
                  /\ last' = [Op("findOneAndRemove", doc, cond, FALSE, Null, r.result)
                                 EXCEPT !.childrens = r.childrens]

\* ------------------------------------------------------- static('remove')
\* Model.remove(conditions) is replaced by the plugin's static: find, then
\* _deleteDocument on every match (mapLimit), whose callback only reports.
\* The promise gets the first error, or completes.  No store call removes.
RemoveStatic(cond) ==
    LET docs == Match(store, cond)
        refused == {d \in docs : DeleteDocument(store, d).result # "ok"}
    IN  /\ Begin
        /\ store' = store
        /\ used' = used
        /\ IF refused = {}
           THEN last' = [Op("removeStatic", Null, cond, FALSE, Null, "ok")
                           EXCEPT !.data = docs]
           ELSE \E d \in refused :
                  last' = [Op("removeStatic", Null, cond, FALSE, Null, "HasDescendants")
                             EXCEPT !.data = docs,
                                    !.childrens = DeleteDocument(store, d).childrens]

\* ------------------------------------------------------------- specification
Create == \E id \in IDs : CreateRoot(id)
CreateWithParent == \E id \in IDs, p \in IDs : CreateChild(id, p)
Save == \E id \in IDs : SaveData(id)
Reparent == \E id \in IDs, p \in Refs : SaveReparent(id, p)
UpdateQuery ==
    \E cond \in Conditions, setParent \in BOOLEAN, p \in Refs, multi \in BOOLEAN :
        Update(cond, setParent, p, multi)
FindOneAndUpdateQuery ==
    \E cond \in Conditions, setParent \in BOOLEAN, p \in Refs, returnNew \in BOOLEAN :
        FindOneAndUpdate(cond, setParent, p, returnNew)
RemoveDocument == \E id \in IDs : Remove(id)
FindOneAndRemoveQuery == \E cond \in Conditions : FindOneAndRemove(cond)
RemoveQuery == \E cond \in Conditions : RemoveStatic(cond)

Next ==
    \/ Create
    \/ CreateWithParent
    \/ Save
    \/ Reparent
    \/ UpdateQuery
    \/ FindOneAndUpdateQuery
    \/ RemoveDocument
    \/ FindOneAndRemoveQuery
    \/ RemoveQuery
    \/ Return

Spec == Init /\ [][Next]_vars

\* ------------------------------------------------------------ buildAncestors
\* which store call of a rebuild fails, if any: the find of the roots, the
\* update that clears them, or the update of the children of one parent
NoFailure == [at |-> "none", node |-> Null]
Failures ==
    {NoFailure} \cup [at : {"rootFind", "rootUpdate"}, node : {Null}]
                \cup [at : {"update"}, node : IDs]

\* the store's update({parent: p}, {ancestors: chain}, {multi: true})
SetAncestorsOfChildren(st, p, chain) ==
    [st EXCEPT !.ancestors =
        [d \in IDs |-> IF d \in FindByParent(st, p) THEN chain ELSE st.ancestors[d]]]

\* updateChildren(pDocs, cbFinish).  pDocs are documents in memory: mem holds
\* the ancestors each was fetched with.  The tasks of one call write the
\* children of different parents and recurse into disjoint subtrees, so they
\* are run one after the other here; a task that fails reports the error and
\* the tasks already started (at most mapLimit, which no level exceeds) run on.
RECURSIVE UpdateChildren(_, _, _, _)
UpdateChildren(st, pDocs, mem, fail) ==
    IF pDocs = {}
    THEN [store |-> st, err |-> FALSE]
    ELSE LET parent == CHOOSE d \in pDocs : TRUE
             ancestorsArray == ComputeChain(mem[parent], parent)
             task ==
                 IF fail.at = "update" /\ fail.node = parent
                 THEN [store |-> st, err |-> TRUE]
                 ELSE LET updated == SetAncestorsOfChildren(st, parent, ancestorsArray)
                          docs == FindByParent(updated, parent)
                      IN  IF docs = {}
                          THEN [store |-> updated, err |-> FALSE]
                          ELSE UpdateChildren(updated, docs, updated.ancestors, fail)
             others == UpdateChildren(task.store, pDocs \ {parent}, mem, fail)
         IN  [store |-> others.store, err |-> task.err \/ others.err]

\* Model.buildAncestors(): the roots are fetched, then cleared in the store,
\* then updateChildren runs on the documents fetched before the clearing.
\* Neither callback looks at an error: the promise is completed.
BuildAncestors(fail) ==
    /\ Begin
    /\ Cardinality(store.stored) <= MapLimit
    /\ LET docs == IF fail.at = "rootFind" THEN {} ELSE FindByParent(store, Null)
           cleared == IF fail.at = "rootUpdate" THEN store
                      ELSE SetAncestorsOfChildren(store, Null, <<>>)
           r == UpdateChildren(cleared, docs, store.ancestors, fail)
       IN  /\ fail.at = "update" => r.err
           /\ store' = r.store
           /\ used' = used
           /\ last' = [Op("buildAncestors", Null, NoCond, FALSE, Null, "ok")
                          EXCEPT !.storeError = (fail # NoFailure)]

Rebuild == BuildAncestors(NoFailure)
RebuildFailing == \E fail \in Failures \ {NoFailure} : BuildAncestors(fail)

\* A collection that existed before the plugin was installed: documents
\* 1..k whose parent pointers form a forest, each with any ancestors array of
\* at most MaxStale ids.
RECURSIVE SeqsUpTo(_, _)
SeqsUpTo(S, n) ==
    IF n = 0 THEN {<<>>}
    ELSE LET shorter == SeqsUpTo(S, n - 1)
         IN  shorter \cup {Append(q, x) : q \in shorter, x \in S}

InitRebuild ==
    /\ \E k \in 0..NumIds :
         \E par \in {f \in [IDs -> Refs] :
                        \A d \in IDs : f[d] < d /\ (d > k => f[d] = Null)} :
           \E anc \in [IDs -> SeqsUpTo(IDs, MaxStale)] :
             /\ \A d \in IDs : d > k => anc[d] = <<>>
             /\ store = [stored |-> 1..k, parent |-> par, ancestors |-> anc]
    /\ used = store.stored
    /\ pre = store
    /\ last = Idle
    /\ ops = 0
    /\ rejected = FALSE
    /\ options = DefaultOptions
    /\ Sequential

NextRebuild ==
    \/ Rebuild
    \/ RebuildFailing
    \/ Return

SpecRebuild == InitRebuild /\ [][NextRebuild]_vars

\* ------------------------------------- buildAncestors, store call by store call
\* One invocation of buildAncestors as the event loop runs it.  Every document
\* handed to updateChildren is a task of the mapLimit of that call:
\* "waiting" until mapLimit starts it, "update" and "find" while its store
\* call is in flight, "recurse" while updateChildren runs on its children,
\* "done" after cbNext.
TasksOf(cs, call) == {d \in IDs : cs.task[d] # "none" /\ cs.caller[d] = call}
WaitingIn(cs, call) == {d \in TasksOf(cs, call) : cs.task[d] = "waiting"}
RunningIn(cs, call) ==
    {d \in TasksOf(cs, call) : cs.task[d] \in {"update", "find", "recurse"}}

\* updateChildren(docs) called by task call: the documents become tasks and
\* mapLimit starts the first options.mapLimit of them, each computing its
\* ancestorsArray and issuing its update
CallUpdateChildren(cs, call, docs, fetched) ==
    {[cs EXCEPT
        !.task   = [d \in IDs |-> IF d \in S THEN "update"
                                  ELSE IF d \in docs THEN "waiting" ELSE @[d]],
        !.caller = [d \in IDs |-> IF d \in docs THEN call ELSE @[d]],
        !.mem    = [d \in IDs |-> IF d \in docs THEN fetched[d] ELSE @[d]]] :
            S \in Started(docs, options.mapLimit)}

\* cbNext(null) of task p: mapLimit starts the next waiting task of the call,
\* or, when p was the last one running, calls the call's callback, which is
\* cbNext(null) of the calling task or, for the roots, promise.complete()
RECURSIVE Finish(_, _)
Finish(cs, p) ==
    LET done == [cs EXCEPT !.task[p] = "done"]
        call == cs.caller[p]
    IN  IF WaitingIn(done, call) # {}
        THEN {[done EXCEPT !.task[d] = "update"] : d \in WaitingIn(done, call)}
        ELSE IF RunningIn(done, call) # {}
        THEN {done}
        ELSE IF call = Null
        THEN {[done EXCEPT !.pc = "complete"]}
        ELSE Finish(done, call)

\* Model.buildAncestors(): find({parent: null}) is issued
RebuildStart ==
    /\ calls.pc = "none"
    /\ calls' = [calls EXCEPT !.pc = "rootFind"]
    /\ UNCHANGED <<store, used, pre, last, ops, rejected, options, procs>>

\* a rebuild that does not wait for the clearing update before it starts
\* updateChildren on the roots
RebuildRootsFoundNoWait ==
    /\ calls.pc = "rootFind"
    /\ LET docs == FindByParent(store, Null)
       IN  calls' \in CallUpdateChildren([calls EXCEPT !.pc = "rootUpdate"],
                                          Null, docs, store.ancestors)
    /\ UNCHANGED <<store, used, pre, last, ops, rejected, options, procs>>

\* the roots are fetched; the update that clears them is issued
RebuildRootsFound ==
    /\ calls.pc = "rootFind"
    /\ LET docs == FindByParent(store, Null)
       IN  calls' = [calls EXCEPT
               !.pc   = "rootUpdate",
               !.task = [d \in IDs |-> IF d \in docs THEN "waiting" ELSE @[d]],
               !.mem  = [d \in IDs |-> IF d \in docs THEN store.ancestors[d] ELSE @[d]]]
    /\ UNCHANGED <<store, used, pre, last, ops, rejected, options, procs>>

\* the clearing update is answered: updateChildren(docs, ...) on the roots
\* fetched before it
RebuildRootsCleared ==
    /\ calls.pc = "rootUpdate"
    /\ store' = SetAncestorsOfChildren(store, Null, <<>>)
    /\ LET docs == WaitingIn(calls, Null)
       IN  IF docs = {}
           THEN calls' = [calls EXCEPT !.pc = "complete"]
           ELSE calls' \in CallUpdateChildren([calls EXCEPT !.pc = "running"],
                                              Null, docs, calls.mem)
    /\ UNCHANGED <<used, pre, last, ops, rejected, options, procs>>

\* the update of the children of p is answered; the find of the children is
\* issued
RebuildChildrenUpdated(p) ==
    /\ calls.pc = "running"
    /\ calls.task[p] = "update"
    /\ store' = SetAncestorsOfChildren(store, p, ComputeChain(calls.mem[p], p))
    /\ calls' = [calls EXCEPT !.task[p] = "find"]
    /\ UNCHANGED <<used, pre, last, ops, rejected, options, procs>>

\* the find of the children of p is answered: cbNext(null) without children,
\* updateChildren(docs, ...) otherwise
RebuildChildrenFound(p) ==
    /\ calls.pc = "running"
    /\ calls.task[p] = "find"
    /\ LET docs == FindByParent(store, p)
       IN  IF docs = {}
           THEN calls' \in Finish(calls, p)
           ELSE calls' \in CallUpdateChildren([calls EXCEPT !.task[p] = "recurse"],
                                              p, docs, store.ancestors)
    /\ UNCHANGED <<store, used, pre, last, ops, rejected, options, procs>>

\* --------------------------------------------- handlers, store call by store call
\* The handlers of save and remove as the event loop runs them: every step
\* is the answer of the store to one call and runs the callback up to the
\* next calls that callback issues.  Two handlers can be in flight.
SetProc(i, r) == procs' = [procs EXCEPT ![i] = r]

\* the store answers a call: with an error only while the handler's budget
\* of failing calls lasts
Answers(i) == IF procs[i].faults > 0 THEN BOOLEAN ELSE {TRUE}
Spent(i, ok) ==
    [procs[i] EXCEPT !.faults = IF ok THEN @ ELSE @ - 1,
                     !.storeError = @ \/ (~ok /\ procs[i].result = "none")]

\* f without the key c
Without(f, c) == [x \in DOMAIN f \ {c} |-> f[x]]
With(f, c, v) == [x \in DOMAIN f \cup {c} |-> IF x = c THEN v ELSE f[x]]

\* handlers start in the order of their numbers
MayStart(i) ==
    /\ procs[i].op = "none"
    /\ \A j \in Procs : j < i => procs[j].op # "none"

\* document.save() reaches pre('save') with a new document or a modified
\* parent.  A new document without a parent: ancestors = [], next().  Without
\* a parent otherwise: ancestors = [], doc.save(), updateChilds() issues its
\* find.  With a parent: findOne(byId(parent)) is issued.
StartSave(i, d, p, isNew) ==
    /\ MayStart(i)
    /\ IF isNew THEN Fresh(d) ELSE d \in store.stored /\ p # store.parent[d]
    /\ used' = IF isNew THEN used \cup {d} ELSE used
    /\ LET r == [procs[i] EXCEPT !.op = "save", !.doc = d, !.parent = p,
                                 !.isNew = isNew]
       IN  IF isNew /\ p = Null
           THEN SetProc(i, [r EXCEPT !.pc = "write", !.reported = 1])
           ELSE IF p = Null
           THEN SetProc(i, [r EXCEPT !.pc = "find", !.savePending = TRUE])
           ELSE SetProc(i, [r EXCEPT !.pc = "lookup"])
    /\ UNCHANGED <<store, pre, last, ops, rejected, options, calls>>

\* findOne(byId(doc[parentId])) is answered: err || !newParent invalidates
\* and calls next(new Error('Parent not found!')); otherwise the chain is
\* computed, doc.save() is issued and updateChilds() issues its find
ParentLookupAnswered(i) ==
    /\ procs[i].pc = "lookup"
    /\ \E ok \in Answers(i) :
         LET r == Spent(i, ok)
         IN  IF ~ok \/ r.parent \notin store.stored
             THEN SetProc(i, [r EXCEPT !.pc = "done", !.result = "ParentNotFound",
                                       !.reported = @ + 1])
             ELSE SetProc(i, [r EXCEPT
                     !.pc = "find",
                     !.lookedUp = TRUE,
                     !.ancestors = ComputeChain(store.ancestors[r.parent], r.parent),
                     !.savePending = TRUE])
    /\ UNCHANGED <<store, used, pre, last, ops, rejected, options, calls>>

\* the doc.save() issued inside _updatedDocument is answered; nothing waits
\* for it and it has no callback
DocSaveAnswered(i) ==
    /\ procs[i].savePending
    /\ \E ok \in Answers(i) :
         LET r == Spent(i, ok)
         IN  /\ store' = IF ok
                         THEN SaveDoc(store, "save", r.doc, r.parent, r.ancestors)
                         ELSE store
             /\ SetProc(i, [r EXCEPT !.savePending = FALSE, !.saveConfirmed = ok])
    /\ UNCHANGED <<used, pre, last, ops, rejected, options, calls>>

\* find({ancestors: doc.id}) of updateChilds is answered.  err is not looked
\* at: docs is then undefined and async.map calls back at once.  Otherwise
\* async.map computes every document's chain and issues its save; without
\* documents it calls back at once.
CascadeFindAnswered(i) ==
    /\ procs[i].pc = "find"
    /\ \E ok \in Answers(i) :
         LET r == Spent(i, ok)
             docs == IF ok THEN FindByAncestor(store, r.doc) ELSE {}
             chains == UpdateChilds(store, store, r.doc, r.ancestors).ancestors
         IN  IF docs = {}
             THEN SetProc(i, [r EXCEPT !.pc = "write", !.reported = @ + 1])
             ELSE SetProc(i, [r EXCEPT !.pc = "cascade",
                                       !.pending = [c \in docs |-> chains[c]]])
    /\ UNCHANGED <<store, used, pre, last, ops, rejected, options, calls>>

\* an async.map that hands every error to its callback, not only the first
ChildSaveAnsweredEveryError(i, c) ==
    /\ c \in DOMAIN procs[i].pending
    /\ \E ok \in Answers(i) :
         LET r == Spent(i, ok)
             left == Without(r.pending, c)
             q == [r EXCEPT !.pending = left,
                            !.wrote = IF ok THEN With(@, c, r.pending[c]) ELSE @,
                            !.failed = IF ok THEN @ ELSE @ \cup {c}]
         IN  /\ store' = IF ok THEN PutAncestors(store, c, r.pending[c]) ELSE store
             /\ IF ~ok
                THEN SetProc(i, [q EXCEPT !.pc = "done", !.result = "StoreError",
                                          !.reported = @ + 1])
                ELSE IF r.pc = "cascade" /\ DOMAIN left = {}
                THEN SetProc(i, [q EXCEPT !.pc = "write", !.reported = @ + 1])
                ELSE SetProc(i, q)
    /\ UNCHANGED <<used, pre, last, ops, rejected, options, calls>>

\* one childrenDoc.save() is answered: cbNext(err, data).  async.map calls
\* next(err) on the first error and next() after the last answer, once;
\* the saves in flight at an error are still answered.
ChildSaveAnswered(i, c) ==
    /\ c \in DOMAIN procs[i].pending
    /\ \E ok \in Answers(i) :
         LET r == Spent(i, ok)
             left == Without(r.pending, c)
             q == [r EXCEPT !.pending = left,
                            !.wrote = IF ok THEN With(@, c, r.pending[c]) ELSE @,
                            !.failed = IF ok THEN @ ELSE @ \cup {c}]
         IN  /\ store' = IF ok THEN PutAncestors(store, c, r.pending[c]) ELSE store
             /\ IF r.pc # "cascade"
                THEN SetProc(i, q)
                ELSE IF ~ok
                THEN SetProc(i, [q EXCEPT !.pc = "done", !.result = "StoreError",
                                          !.reported = @ + 1])
                ELSE IF DOMAIN left = {}
                THEN SetProc(i, [q EXCEPT !.pc = "write", !.reported = @ + 1])
                ELSE SetProc(i, q)
    /\ UNCHANGED <<used, pre, last, ops, rejected, options, calls>>

\* pre('save') called next() without an error: the document is written
DocumentWritten(i) ==
    /\ procs[i].pc = "write"
    /\ \E ok \in Answers(i) :
         LET r == Spent(i, ok)
         IN  /\ store' = IF ok THEN Put(store, r.doc, r.parent, r.ancestors)
                         ELSE store
             /\ SetProc(i, [r EXCEPT !.pc = "done",
                                      !.result = IF ok THEN "ok" ELSE "StoreError"])
    /\ UNCHANGED <<used, pre, last, ops, rejected, options, calls>>

\* document.remove() reaches pre('remove'): findOne({_id: this._id}) is issued
StartRemove(i, d) ==
    /\ MayStart(i)
    /\ d \in store.stored
    /\ SetProc(i, [procs[i] EXCEPT !.op = "remove", !.doc = d, !.pc = "findOne"])
    /\ UNCHANGED <<store, used, pre, last, ops, rejected, options, calls>>

\* the findOne of pre('remove') is answered.  err is not looked at: data is
\* then undefined, as it is null when the document is gone, and
\* _deleteDocument calls next() at once.  Otherwise the guard's find is issued.
RemoveFindOneAnswered(i) ==
    /\ procs[i].pc = "findOne"
    /\ \E ok \in Answers(i) :
         LET r == Spent(i, ok)
         IN  IF ok /\ r.doc \in store.stored
             THEN SetProc(i, [r EXCEPT !.pc = "guard"])
             ELSE SetProc(i, [r EXCEPT !.pc = "removal", !.reported = @ + 1])
    /\ UNCHANGED <<store, used, pre, last, ops, rejected, options, calls>>

\* the find of _deleteDocument is answered: next(e), next() or next(err)
GuardAnswered(i) ==
    /\ procs[i].pc = "guard"
    /\ \E ok \in Answers(i) :
         LET r == Spent(i, ok)
             g == DeleteDocument(store, r.doc)
         IN  IF ~ok
             THEN SetProc(i, [r EXCEPT !.pc = "done", !.result = "StoreError",
                                       !.reported = @ + 1])
             ELSE IF g.result = "ok"
             THEN SetProc(i, [r EXCEPT !.pc = "removal", !.reported = @ + 1])
             ELSE SetProc(i, [r EXCEPT !.pc = "done", !.result = g.result,
                                       !.reported = @ + 1])
    /\ UNCHANGED <<store, used, pre, last, ops, rejected, options, calls>>

\* pre('remove') called next() without an error: the document is removed
DocumentRemoved(i) ==
    /\ procs[i].pc = "removal"
    /\ \E ok \in Answers(i) :
         LET r == Spent(i, ok)
         IN  /\ store' = IF ok /\ r.doc \in store.stored
                         THEN Delete(store, r.doc) ELSE store
             /\ SetProc(i, [r EXCEPT !.pc = "done",
                                      !.result = IF ok THEN "ok" ELSE "StoreError"])
    /\ UNCHANGED <<used, pre, last, ops, rejected, options, calls>>

\* Model.remove(conditions): the static issues find(conditions)
StartRemoveStatic(i, cond) ==
    /\ MayStart(i)
    /\ SetProc(i, [procs[i] EXCEPT !.op = "removeStatic", !.cond = cond,
                                   !.pc = "bulkFind"])
    /\ UNCHANGED <<store, used, pre, last, ops, rejected, options, calls>>

\* the find of the static is answered.  err is not looked at: docs is then
\* undefined and mapLimit calls back at once, as it does without documents:
\* promise.complete().  Otherwise mapLimit starts _deleteDocument on up to
\* mapLimit documents.
BulkFindAnswered(i) ==
    /\ procs[i].pc = "bulkFind"
    /\ \E ok \in Answers(i) :
         LET r == Spent(i, ok)
             docs == IF ok THEN Match(store, r.cond) ELSE {}
         IN  IF docs = {}
             THEN SetProc(i, [r EXCEPT !.pc = "done", !.result = "ok",
                                       !.reported = @ + 1])
             ELSE \E S \in Started(docs, options.mapLimit) :
                    SetProc(i, [r EXCEPT !.pc = "bulkGuard", !.running = S,
                                         !.waiting = docs \ S])
    /\ UNCHANGED <<store, used, pre, last, ops, rejected, options, calls>>

\* the find of one _deleteDocument of the static is answered: cbNext(e),
\* cbNext() or cbNext(err).  mapLimit reports the first error with
\* promise.error(err) and starts nothing more; otherwise it starts the next
\* document and, after the last answer, promise.complete() is called.
BulkGuardAnswered(i, c) ==
    /\ c \in procs[i].running
    /\ \E ok \in Answers(i) :
         LET r == Spent(i, ok)
             g == DeleteDocument(store, c)
             q == [r EXCEPT !.running = @ \ {c}]
         IN  IF r.pc # "bulkGuard"
             THEN SetProc(i, q)
             ELSE IF ~ok \/ g.result # "ok"
             THEN SetProc(i, [q EXCEPT !.pc = "done",
                                       !.result = IF ok THEN g.result ELSE "StoreError",
                                       !.waiting = {},
                                       !.reported = @ + 1])
             ELSE IF q.waiting # {}
             THEN \E S \in Started(q.waiting, 1) :
                    SetProc(i, [q EXCEPT !.running = @ \cup S, !.waiting = @ \ S])
             ELSE IF q.running = {}
             THEN SetProc(i, [q EXCEPT !.pc = "done", !.result = "ok",
                                       !.reported = @ + 1])
             ELSE SetProc(i, q)
    /\ UNCHANGED <<store, used, pre, last, ops, rejected, options, calls>>

\* ------------------------------------------------- one operation on a tree
\* walking the parent pointers of n up to the root, listed root-first
RECURSIVE PathFromRoot(_, _)
PathFromRoot(parentOf, n) ==
    IF parentOf[n] = Null THEN <<>>
    ELSE Append(PathFromRoot(parentOf, parentOf[n]), parentOf[n])

\* The collections a sequence of creates leaves: documents 1..k, each a root
\* or the child of a document created before it, with the chain the
\* creation computed.
CreatedForests ==
    {[stored    |-> 1..k,
      parent    |-> par,
      ancestors |-> [d \in IDs |-> PathFromRoot(par, d)]] :
        k \in 0..NumIds,
        par \in {f \in [IDs -> Refs] : \A d \in IDs : f[d] < d}}

\* any such collection, with one more operation to run
InitTree ==
    /\ store \in {st \in CreatedForests :
                    \A d \in IDs : d \notin st.stored => st.parent[d] = Null}
    /\ used = store.stored
    /\ pre = store
    /\ last = Idle
    /\ ops = MaxOps - 1
    /\ rejected = FALSE
    /\ options = DefaultOptions
    /\ Sequential

SpecTree == InitTree /\ [][Next]_vars

\* one operation on such a collection, the plugin installed with any name
\* for the ancestors field
FieldNames == {"ancestors", "path"}

InitConfig ==
    /\ store \in {st \in CreatedForests :
                    \A d \in IDs : d \notin st.stored => st.parent[d] = Null}
    /\ used = store.stored
    /\ pre = store
    /\ last = Idle
    /\ ops = MaxOps - 1
    /\ rejected = FALSE
    /\ options \in [ancestorsFieldName : FieldNames, mapLimit : {MapLimit}]
    /\ Sequential

SpecConfig == InitConfig /\ [][Next]_vars

\* ------------------------------------------------ handlers in flight together
SaveStep ==
    \/ \E i \in Procs, d \in IDs, p \in Refs, isNew \in BOOLEAN : StartSave(i, d, p, isNew)
    \/ \E i \in Procs : ParentLookupAnswered(i)
    \/ \E i \in Procs : DocSaveAnswered(i)
    \/ \E i \in Procs : CascadeFindAnswered(i)
    \/ \E i \in Procs, c \in IDs : ChildSaveAnswered(i, c)
    \/ \E i \in Procs : DocumentWritten(i)

RemoveStep ==
    \/ \E i \in Procs, d \in IDs : StartRemove(i, d)
    \/ \E i \in Procs : RemoveFindOneAnswered(i)
    \/ \E i \in Procs : GuardAnswered(i)
    \/ \E i \in Procs : DocumentRemoved(i)

RemoveStaticStep ==
    \/ \E i \in Procs, cond \in Conditions : StartRemoveStatic(i, cond)
    \/ \E i \in Procs : BulkFindAnswered(i)
    \/ \E i \in Procs, c \in IDs : BulkGuardAnswered(i, c)

NextSteps ==
    \/ SaveStep
    \/ RemoveStep

\* the limits a caller configures mapLimit with
Limits == {2, MapLimit}

\* two calls, each a save or a remove of a document, made on a collection a
\* sequence of creates left, with an id to spare for a new document; no
\* store call fails
InitSteps ==
    /\ store \in {st \in CreatedForests :
                    /\ Cardinality(st.stored) < NumIds
                    /\ \A d \in IDs : d \notin st.stored => st.parent[d] = Null}
    /\ used = store.stored
    /\ pre = store
    /\ last = Idle
    /\ ops = 0
    /\ rejected = FALSE
    /\ options = DefaultOptions
    /\ procs = NoProcs
    /\ calls = NoCalls

SpecSteps == InitSteps /\ [][NextSteps]_vars

\* one call made on such a collection, with any configured mapLimit, up to
\* MaxFaults of its store calls failing
InitFaults ==
    /\ store \in {st \in CreatedForests :
                    \A d \in IDs : d \notin st.stored => st.parent[d] = Null}
    /\ used = store.stored
    /\ pre = store
    /\ last = Idle
    /\ ops = 0
    /\ rejected = FALSE
    /\ options \in [ancestorsFieldName : {"ancestors"}, mapLimit : Limits]
    /\ procs = [i \in Procs |-> IF i = 1 THEN [NoProc EXCEPT !.faults = MaxFaults]
                                 ELSE [NoProc EXCEPT !.op = "off"]]
    /\ calls = NoCalls

NextFaults ==
    \/ SaveStep
    \/ RemoveStep
    \/ RemoveStaticStep

SpecFaults == InitFaults /\ [][NextFaults]_vars

\* ------------------------------------------------------- a rebuild in flight
\* one buildAncestors on such a collection, with any configured mapLimit
InitRebuildSteps ==
    /\ store \in {st \in CreatedForests :
                    \A d \in IDs : d \notin st.stored => st.parent[d] = Null}
    /\ used = store.stored
    /\ pre = store
    /\ last = Idle
    /\ ops = 0
    /\ rejected = FALSE
    /\ options \in [ancestorsFieldName : {"ancestors"}, mapLimit : Limits]
    /\ procs = NoProcs
    /\ calls = NoCalls

NextRebuildSteps ==
    \/ RebuildStart
    \/ RebuildRootsFound
    \/ RebuildRootsCleared
    \/ \E p \in IDs : RebuildChildrenUpdated(p)
    \/ \E p \in IDs : RebuildChildrenFound(p)

SpecRebuildSteps == InitRebuildSteps /\ [][NextRebuildSteps]_vars

\* ------------------------------------------------------------------ claims
\* n.ancestors = [] for a root, parent.ancestors ++ [parent.id] otherwise,
\* the parent being a stored document
TreeInvariant(st) ==
    \A n \in st.stored :
        IF st.parent[n] = Null
        THEN st.ancestors[n] = <<>>
        ELSE /\ st.parent[n] \in st.stored
             /\ st.ancestors[n] =
                    st.ancestors[st.parent[n]] \o <<st.parent[n]>>

\* the descendants of n by parent pointers, at every depth
RECURSIVE Below(_, _, _)
Below(st, S, fuel) ==
    LET more == S \cup {d \in st.stored : st.parent[d] \in S}
    IN  IF fuel = 0 \/ more = S THEN S ELSE Below(st, more, fuel - 1)

PointerDescendants(st, n) ==
    Below(st, {d \in st.stored : st.parent[d] = n}, NumIds)

\* the part of chain that starts at the first occurrence of n
SuffixFrom(chain, n) ==
    IF \E i \in 1..Len(chain) : chain[i] = n
    THEN LET first == CHOOSE i \in 1..Len(chain) :
                          /\ chain[i] = n
                          /\ \A j \in 1..(i - 1) : chain[j] # n
         IN  SubSeq(chain, first, Len(chain))
    ELSE <<>>

\* C1: after any sequence of successful operations from the empty store,
\* every stored node's ancestors is [] for a root and its stored parent's
\* ancestors followed by the parent's id otherwise.
C1_GlobalTreeInvariant ==
    (~rejected /\ last.result = "ok") => TreeInvariant(store)

\* the single document n that the last operation re-parented to p and handed
\* to _updatedDocument as stored after the change: a save of n, an update
\* whose filter still matches n, a findOneAndUpdate returning the new n
HandledReparent(n, p) ==
    /\ last.setParent /\ last.newParent = p /\ last.result = "ok"
    /\ n \in pre.stored /\ pre.parent[n] # p /\ store.parent[n] = p
    /\ \/ last.op = "save" /\ last.node = n
       \/ last.op = "update" /\ last.data = {n}
       \/ last.op = "findOneAndUpdate" /\ last.node = n /\ last.returnNew

RemovalOf(n) ==
    /\ last.op \in {"remove", "findOneAndRemove"}
    /\ last.node = n
    /\ n \in pre.stored

\* C3: in a store satisfying the tree invariant, the removal of n is refused
\* exactly when n has a descendant by parent pointers; the error then carries
\* exactly the ids of all its descendants and nothing is removed; without
\* descendants the removal goes through.
C3_DeletionGuard ==
    \A n \in IDs :
        (RemovalOf(n) /\ TreeInvariant(pre)) =>
            LET D == PointerDescendants(pre, n)
            IN  /\ (last.result = "HasDescendants") <=> (D # {})
                /\ D # {} => (last.childrens = D /\ store = pre)
                /\ D = {} => (last.result = "ok" /\ store = Delete(pre, n))

\* C3 witness: a removal was refused because of a child and a grandchild
C3_Witness ==
    \E n \in IDs, c \in IDs, g \in IDs :
        /\ RemovalOf(n) /\ TreeInvariant(pre)
        /\ pre.parent[c] = n /\ pre.parent[g] = c /\ {c, g} \subseteq pre.stored
        /\ last.result = "HasDescendants"
        /\ {c, g} \subseteq last.childrens

\* a create declared a parent id that is not stored
CreateUnderMissingParent ==
    /\ last.op = "create"
    /\ last.setParent
    /\ last.newParent \notin pre.stored

\* C4: creating a node whose declared parent does not exist fails with
\* parent-not-found, marks the parent field invalid and leaves the store as it
\* was: the same documents with the same parent and ancestors.
C4_CreateParentNotFound ==
    CreateUnderMissingParent =>
        /\ last.result = "ParentNotFound"
        /\ last.invalid
        /\ store = pre

\* C4 witness: such a create was attempted on a non-empty store
C4_Witness ==
    /\ CreateUnderMissingParent
    /\ pre.stored # {}
    /\ last.result = "ParentNotFound"

\* the documents a query-level or document-level call addresses
Addressed ==
    IF last.op = "update" THEN Match(pre, last.cond)
    ELSE IF last.node = Null THEN {} ELSE {last.node}

\* C5: a re-parent of an existing node to a parent id that does not exist,
\* through save, update or findOneAndUpdate, is rejected and leaves the stored
\* parent and ancestors of the node unchanged.
C5_RejectedReparentWritesNothing ==
    ( /\ last.op \in {"save", "update", "findOneAndUpdate"}
      /\ last.setParent
      /\ last.newParent # Null /\ last.newParent \notin pre.stored
      /\ Addressed # {} )
    =>
    /\ last.result = "ParentNotFound"
    /\ \A n \in Addressed :
          /\ store.parent[n] = pre.parent[n]
          /\ store.ancestors[n] = pre.ancestors[n]

\* C8: after the static Model.remove(conditions) completes, no node matched
\* by the filter that has zero descendants remains stored.
C8_BulkRemoveRemoves ==
    last.op = "removeStatic" =>
        \A d \in last.data :
            PointerDescendants(pre, d) = {} => d \notin store.stored

\* C10: an update of an existing node that does not assign its parent field,
\* through save, update or findOneAndUpdate, leaves every stored node's
\* ancestors as it was.
C10_DataEditsKeepAncestors ==
    ( /\ last.op \in {"save", "update", "findOneAndUpdate"}
      /\ ~last.setParent )
    => store.ancestors = pre.ancestors

\* a rebuild ran, every store call of which succeeded
RebuildCompleted ==
    /\ last.op = "buildAncestors"
    /\ ~last.storeError

\* C6: for a forest with correct parent pointers and arbitrary stored
\* ancestors, after buildAncestors completes every node's ancestors is the
\* sequence of ids met walking its parent pointers up to the root, root first.
C6_RebuildCorrect ==
    RebuildCompleted =>
        \A n \in store.stored :
            store.ancestors[n] = PathFromRoot(store.parent, n)

\* C7: running buildAncestors twice in succession leaves every node with the
\* same ancestors after the second run as after the first.
C7_RebuildIdempotent ==
    (RebuildCompleted /\ ~rejected /\ ops >= 2) =>
        store.ancestors = pre.ancestors

\* C9: if a store update or read issued during buildAncestors fails, the
\* caller receives an error instead of completion.
C9_RebuildReportsFailure ==
    (last.op = "buildAncestors" /\ last.storeError) => last.result # "ok"

\* the cascade of handler i has started: its descendant query is issued, or
\* descendants are being or have been rewritten
CascadeStarted(i) ==
    \/ procs[i].pc \in {"find", "cascade"}
    \/ DOMAIN procs[i].pending # {}
    \/ DOMAIN procs[i].wrote # {}

\* the write of the node of handler i is issued or answered
WriteIssued(i) ==
    \/ procs[i].savePending
    \/ procs[i].saveConfirmed
    \/ procs[i].pc = "write"
    \/ procs[i].result = "ok"

\* C11: in the insertion / re-parent handler the parent lookup has completed
\* successfully before the node's write is issued, and the write of the
\* node's own new ancestors is confirmed persisted before the cascade starts
\* (before the descendant query is issued, before any descendant is rewritten).
C11_HandlerOrdering ==
    \A i \in Procs :
        procs[i].op = "save" =>
            /\ (WriteIssued(i) /\ procs[i].parent # Null) => procs[i].lookedUp
            /\ CascadeStarted(i) => procs[i].saveConfirmed

\* how deep the stored document d sits (the rebuild leaves parents alone)
Depth(d) == Len(PathFromRoot(store.parent, d))

\* the task of p has started: the chain of p's children is computed and the
\* update that writes it is issued
TaskStarted(p) == calls.task[p] \in {"update", "find", "recurse", "done"}

\* the rebuild's write of y's ancestors has been answered: the clearing
\* update for a root, the update of the children of y's parent otherwise
Written(y) ==
    IF store.parent[y] = Null
    THEN calls.pc \in {"running", "complete"}
    ELSE calls.task[store.parent[y]] \in {"find", "recurse", "done"}

RebuildInFlight ==
    Cardinality({d \in IDs : calls.task[d] \in {"update", "find"}})

\* the saves of descendants the cascade of handler i has in flight
CascadeInFlight(i) == Cardinality(DOMAIN procs[i].pending)

\* C13: at every moment of one rebuild or one cascade, the number of
\* per-record tasks in flight (issued to the store and not yet answered) is
\* at most the configured limit mapLimit.
C13_BoundedConcurrency ==
    /\ RebuildInFlight <= options.mapLimit
    /\ \A i \in Procs : CascadeInFlight(i) <= options.mapLimit

\* the tree invariant at the stored node n
TreeInvariantAt(st, n) ==
    IF st.parent[n] = Null
    THEN st.ancestors[n] = <<>>
    ELSE /\ st.parent[n] \in st.stored
         /\ st.ancestors[n] = st.ancestors[st.parent[n]] \o <<st.parent[n]>>

\* a bulk update changed the parent of some node, to null or to a stored
\* node outside the subtrees of the nodes it wrote
BulkReparent ==
    /\ last.op = "update" /\ last.setParent
    /\ TreeInvariant(pre)
    /\ \E n \in last.affected : pre.parent[n] # last.newParent
    /\ last.newParent # Null =>
          /\ last.newParent \in pre.stored
          /\ \A n \in last.affected :
                last.newParent \notin {n} \cup PointerDescendants(pre, n)

\* C14: after a bulk update by filter that changes the parent of one or more
\* nodes, the records the post-update hook re-fetches are exactly the records
\* the update affected, for every filter, and each re-parented node and all
\* its descendants satisfy the tree invariant when the hook completes.
C14_BulkUpdateCoverage ==
    BulkReparent =>
        /\ last.data = last.affected
        /\ \A n \in last.affected :
              \A d \in {n} \cup PointerDescendants(store, n) :
                  TreeInvariantAt(store, d)

\* C15: whenever a store read or write issued by a handler fails (the node's
\* own save, the descendant query of the cascade, the lookup of the document
\* to remove, the find of a bulk remove), the operation is aborted at that
\* point and reports an error to its caller, never success.
C15_StoreFailuresSurfaced ==
    \A i \in Procs :
        procs[i].storeError =>
            /\ procs[i].pc = "done"
            /\ procs[i].result # "ok"

\* C16: if the write of any one descendant fails during a cascade, the
\* cascade reports that failure to its caller exactly once, and every
\* descendant already rewritten keeps its new ancestors value.
C16_CascadeFailFast ==
    \A i \in Procs :
        (procs[i].op = "save" /\ procs[i].failed # {}) =>
            /\ procs[i].result = "StoreError"
            /\ procs[i].reported = 1
            /\ \A c \in DOMAIN procs[i].wrote :
                  store.ancestors[c] = procs[i].wrote[c]

\* C16 witness: of the two descendants of a node moved under a node outside
\* its subtree, one was rewritten and the save of the other failed
C16_Witness ==
    \E i \in Procs, c \in IDs, f \in IDs :
        /\ procs[i].op = "save" /\ ~procs[i].isNew
        /\ procs[i].parent \in pre.stored
        /\ procs[i].parent \notin {procs[i].doc} \cup PointerDescendants(pre, procs[i].doc)
        /\ f \in procs[i].failed
        /\ c \in DOMAIN procs[i].wrote
        /\ store.ancestors[c] # pre.ancestors[c]
        /\ procs[i].reported = 1

\* C17: for any configured ancestors-field name, the deletion guard reads the
\* configured field: a node with descendants recorded in the configured
\* ancestors field is refused deletion.
C17_ConfiguredFieldsHonoured ==
    \A n \in IDs :
        (RemovalOf(n) /\ FindByAncestor(pre, n) # {}) =>
            /\ last.result = "HasDescendants"
            /\ n \in store.stored

\* following parent pointers from n reaches a root within fuel steps
RECURSIVE ReachesRoot(_, _, _)
ReachesRoot(st, n, fuel) ==
    IF st.parent[n] = Null THEN TRUE
    ELSE IF fuel = 0 \/ st.parent[n] \notin st.stored THEN FALSE
    ELSE ReachesRoot(st, st.parent[n], fuel - 1)

\* no chain holds its owner or an id twice, and no parent pointers cycle
ChainsClean(st) ==
    \A n \in st.stored :
        /\ ~Contains(st.ancestors[n], n)
        /\ \A a, b \in 1..Len(st.ancestors[n]) :
              a # b => st.ancestors[n][a] # st.ancestors[n][b]
        /\ ReachesRoot(st, n, NumIds)

\* C18: after any sequence of completed create, re-parent and delete
\* operations, including a re-parent of a node to itself or to one of its own
\* descendants, no stored node's ancestors contains the node's own id, no id
\* occurs twice in any stored ancestors, and following parent pointers from
\* any node reaches a root.  Stated for the operation that completes the
\* sequence.
C18_ChainsCleanAndAcyclic ==
    ( /\ last.op \in {"create", "save", "remove", "findOneAndRemove"}
      /\ last.result = "ok"
      /\ ~rejected
      /\ ChainsClean(pre) )
    => ChainsClean(store)

\* handler i has completed and none of its store calls is in flight
Settled(i) ==
    /\ procs[i].pc = "done"
    /\ ~procs[i].savePending
    /\ DOMAIN procs[i].pending = {}

\* no stored node's parent refers to a node that is not stored
NoDanglingParent(st) ==
    \A n \in st.stored : st.parent[n] = Null \/ st.parent[n] \in st.stored

\* C19: when a create or re-parent of a node under parent p runs concurrently
\* with a removal of p, in every interleaving of their store calls the final
\* store holds no node whose parent is not stored: either the removal is
\* refused or the create / re-parent fails.
C19_NoDanglingParent ==
    \A i \in Procs, j \in Procs :
        ( /\ procs[i].op = "save" /\ procs[j].op = "remove"
          /\ procs[i].parent = procs[j].doc
          /\ procs[i].doc # procs[j].doc
          /\ Settled(i) /\ Settled(j) )
        =>
        /\ NoDanglingParent(store)
        /\ procs[j].result = "HasDescendants" \/ procs[i].result = "ParentNotFound"

\* handler i is the re-parent of a stored node to null or to a stored node
\* outside its own subtree, and has completed successfully
CleanReparent(i) ==
    /\ procs[i].op = "save" /\ ~procs[i].isNew
    /\ procs[i].doc \in pre.stored
    /\ procs[i].parent # Null =>
          /\ procs[i].parent \in pre.stored
          /\ procs[i].parent \notin
                {procs[i].doc} \cup PointerDescendants(pre, procs[i].doc)
    /\ Settled(i)
    /\ procs[i].result = "ok"

\* C20: when the re-parents of a node n and of one of its descendants m run
\* concurrently and both complete, in every interleaving of their store
\* reads and writes the final store satisfies the tree invariant for n, m and
\* all their descendants.
C20_ConcurrentReparentsConverge ==
    \A i \in Procs, j \in Procs :
        ( /\ CleanReparent(i) /\ CleanReparent(j)
          /\ procs[j].doc \in PointerDescendants(pre, procs[i].doc) )
        =>
        \A x \in {procs[i].doc, procs[j].doc}
                  \cup PointerDescendants(store, procs[i].doc)
                  \cup PointerDescendants(store, procs[j].doc) :
            TreeInvariantAt(store, x)

=============================================================================
